---- MODULE Spec2Model ----
(***************************************************************************)
(* Model of data.py (class Data) and analysis.py (class Analysis).         *)
(*                                                                         *)
(* A CSV file is the sequence of rows csv.reader yields: a header row, a   *)
(* type-marker row and data rows, each a sequence of field strings.        *)
(* A numpy array is a sequence of rows plus its number of dimensions       *)
(* (np.array([]) is one-dimensional, every other matrix here is 2-D).      *)
(* Floats holding whole numbers are written as integers; quotients are     *)
(* exact fractions <<num, den>> with den > 0, and <<0, 0>>, <<1, 0>>,      *)
(* <<-1, 0>> stand for nan, inf and -inf (what np.divide yields for a zero *)
(* divisor).  Floating-point rounding is outside the model.                *)
(* A call returns [ok |-> TRUE, val |-> v] or raises, written              *)
(* [ok |-> FALSE, err |-> "<exception class>"].                            *)
(***************************************************************************)
EXTENDS Integers, Sequences, FiniteSets, TLC

VARIABLES
    file,        \* the CSV document at `filepath`
    st,          \* "new": no Data object yet; "ok": constructed; "failed": __init__ raised
    headers,     \* Data.headers
    header2col,  \* Data.header2col
    data,        \* Data.data: the rows of the ndarray
    ndim,        \* Data.data.ndim
    loaded,      \* the rows as read() stored them (history, for the claims)
    cuts,        \* how many limit_samples calls have cut the table (history)
    first,       \* <<start_row, end_row>> of the first of them (history)
    stdout,      \* the lines read() has printed
    call,        \* the call whose outcome the caller holds: [op, h, rows, start_row, end_row]
    ret          \* what that call returned or raised

vars == <<file, st, headers, header2col, data, ndim, loaded, cuts, first, stdout, call, ret>>

-----------------------------------------------------------------------------
(* Bounds of the model. *)

MaxCols == 2       \* columns of a CSV file in the reading specification
MaxRows == 2       \* data rows of a CSV file in the reading specification
MaxSamples == 3    \* data rows of a CSV file in the statistics specification
MaxTall == 6       \* data rows of a CSV file in the row-range specification
MaxHeaders == 2    \* length of a `headers` argument
MaxRowArgs == 2    \* length of a `rows` argument
MaxLimits == 2     \* limit_samples calls in one run
MaxStart == 1      \* largest start_row argument of limit_samples
MaxArg == 4        \* largest end_row argument of limit_samples

-----------------------------------------------------------------------------
(* Sequences and Python indexing. *)

Range(s) == {s[i] : i \in 1..Len(s)}

SeqsUpTo(S, n) == UNION {[1..k -> S] : k \in 0..n}

\* list.index(x): the zero-based position of the first occurrence
ListIndex(s, x) == (CHOOSE i \in 1..Len(s) : s[i] = x /\ \A j \in 1..(i-1) : s[j] # x) - 1

\* [s[i] for i in idx] with zero-based positions idx
Pick(s, idx) == [k \in 1..Len(idx) |-> s[idx[k] + 1]]

\* the positions (zero-based, ascending) of s that satisfy P
RECURSIVE PositionsOf(_, _, _)
PositionsOf(s, x, i) ==
    IF i > Len(s) THEN <<>>
    ELSE IF s[i] = x THEN <<i - 1>> \o PositionsOf(s, x, i + 1)
    ELSE PositionsOf(s, x, i + 1)

Ok(v) == [ok |-> TRUE, val |-> v]
Raise(e) == [ok |-> FALSE, err |-> e]

-----------------------------------------------------------------------------
(* Exact fractions for the float results of np.divide. *)

Abs(x) == IF x < 0 THEN -x ELSE x
Sign(x) == IF x < 0 THEN -1 ELSE IF x > 0 THEN 1 ELSE 0

RECURSIVE GCD(_, _)
GCD(a, b) == IF b = 0 THEN a ELSE GCD(b, a % b)

NaN == <<0, 0>>
IsNaN(q) == q = NaN

\* the fraction n/d in lowest terms, d # 0
Frac(n, d) ==
    LET g == GCD(Abs(n), Abs(d))
    IN  <<Sign(d) * (n \div g), Abs(d) \div g>>

FAdd(p, q) == IF p[2] = 0 \/ q[2] = 0 THEN NaN ELSE Frac(p[1] * q[2] + q[1] * p[2], p[2] * q[2])
FSub(p, q) == IF p[2] = 0 \/ q[2] = 0 THEN NaN ELSE Frac(p[1] * q[2] - q[1] * p[2], p[2] * q[2])
FMul(p, q) == IF p[2] = 0 \/ q[2] = 0 THEN NaN ELSE Frac(p[1] * q[1], p[2] * q[2])

\* np.divide(float, int): a zero divisor raises nothing and yields nan or +-inf
np_divide(p, k) ==
    IF p[2] = 0 THEN p
    ELSE IF k = 0 THEN <<Sign(p[1]), 0>>
    ELSE Frac(p[1], p[2] * k)

RECURSIVE FSum(_)
FSum(s) == IF s = <<>> THEN <<0, 1>> ELSE FAdd(s[1], FSum(Tail(s)))

RECURSIVE SeqMin(_)
SeqMin(s) == IF Len(s) = 1 THEN s[1]
             ELSE LET m == SeqMin(Tail(s)) IN IF s[1] <= m THEN s[1] ELSE m

RECURSIVE SeqMax(_)
SeqMax(s) == IF Len(s) = 1 THEN s[1]
             ELSE LET m == SeqMax(Tail(s)) IN IF s[1] >= m THEN s[1] ELSE m

-----------------------------------------------------------------------------
(* CSV documents. *)

\* data.py:60
data_type_list == {"numeric", "enum", "string", "date"}

HeaderTexts == {"a", "c", "a "}
TypeTexts == {"numeric", "string", "bogus"}

\* str.strip(' ') then str.strip('\n') on a header field (data.py:76-77)
StripHeader(s) == IF s = "a " THEN "a" ELSE s

\* the whole numbers a data field may spell
CellValues == 0..120

\* the value written in data row r, column c of a generated file
CellValue(pattern, r, c) ==
    IF pattern = "asc" THEN (IF c = 1 THEN r ELSE IF c = 2 THEN 7 * r ELSE 10 * r)
    ELSE ((3 * r + c) % 11) + 20 * (c - 1)

\* float(text) (data.py:93): the number a field spells, or ValueError
float(text) ==
    IF \E v \in CellValues : ToString(v) = text
    THEN Ok(CHOOSE v \in CellValues : ToString(v) = text)
    ELSE Raise("ValueError")

\* a document: its header row, its type-marker row and n data rows; a column
\* of kind "num" holds numbers, a column of kind "txt" holds the text "x"
MakeFile(hdr, types, kinds, n, pattern) ==
    [hdr   |-> hdr,
     types |-> types,
     rows  |-> [r \in 1..n |-> [c \in 1..Len(hdr) |->
                  IF kinds[c] = "num" THEN ToString(CellValue(pattern, r, c)) ELSE "x"]]]

-----------------------------------------------------------------------------
(* class Data (data.py). `self` is [headers, header2col, data, ndim]. *)

\* Data.read: the object's fields after reading `f`, or the exception raised
read(f) ==
    LET header_list == [c \in 1..Len(f.hdr) |-> StripHeader(f.hdr[c])]
        \* row_count == 1: only the first field decides whether the row is a type row
        index_row_2_list ==
            IF f.types[1] \notin data_type_list THEN <<>>
            ELSE PositionsOf(f.types, "numeric", 1)
        \* row_count > 1: float() of every retained field
        parsed == [r \in 1..Len(f.rows) |->
                     [k \in 1..Len(index_row_2_list) |->
                        float(f.rows[r][index_row_2_list[k] + 1])]]
        data_list == [r \in 1..Len(f.rows) |->
                        [k \in 1..Len(index_row_2_list) |-> parsed[r][k].val]]
        numeric_header_list == Pick(header_list, index_row_2_list)
        header2col_dictionary ==
            [h \in Range(numeric_header_list) |-> ListIndex(numeric_header_list, h)]
    IN  IF \E r \in 1..Len(f.rows) : \E k \in 1..Len(index_row_2_list) : ~parsed[r][k].ok
        THEN Raise("ValueError")
        ELSE Ok([headers    |-> numeric_header_list,
                 header2col |-> header2col_dictionary,
                 data       |-> data_list,
                 \* np.array([]) has shape (0,); np.array of n >= 1 rows has shape (n, m)
                 ndim       |-> IF data_list = <<>> THEN 1 ELSE 2])

\* what Data.read prints at row_count == 1 (data.py:81-82), before any data row is parsed
read_prints(f) ==
    IF f.types[1] \notin data_type_list
    THEN <<"Error: there are no data types in second row">>
    ELSE <<>>

get_num_dims(self) == Len(self.headers)

get_num_samples(self) == Len(self.data)

\* self.data[rowInd] for the indices head and tail use (a negative index counts from the end)
get_sample(self, rowInd) ==
    self.data[(IF rowInd < 0 THEN rowInd + Len(self.data) ELSE rowInd) + 1]

RECURSIVE get_header_indices(_, _)
get_header_indices(self, hs) ==
    IF hs = <<>> THEN <<>>
    ELSE (IF hs[1] \in DOMAIN self.header2col THEN <<self.header2col[hs[1]]>> ELSE <<>>)
         \o get_header_indices(self, Tail(hs))

\* Data.head: head_list is bound by the branch that matches the sample count, if any
head(self) ==
    LET n == get_num_samples(self)
    IN  CASE 0 < n /\ n < 2 -> Ok(<<get_sample(self, 0)>>)
          [] 1 < n /\ n < 3 -> Ok(<<get_sample(self, 0), get_sample(self, 1)>>)
          [] 2 < n /\ n < 4 -> Ok(<<get_sample(self, 0), get_sample(self, 1), get_sample(self, 2)>>)
          [] 3 < n /\ n < 5 -> Ok(<<get_sample(self, 0), get_sample(self, 1), get_sample(self, 2),
                                    get_sample(self, 3)>>)
          [] n >= 5         -> Ok(<<get_sample(self, 0), get_sample(self, 1), get_sample(self, 2),
                                    get_sample(self, 3), get_sample(self, 4)>>)
          [] OTHER          -> Raise("UnboundLocalError")

\* Data.tail
tail(self) ==
    LET n == get_num_samples(self)
    IN  CASE 0 < n /\ n < 2 -> Ok(<<get_sample(self, -1)>>)
          [] 1 < n /\ n < 3 -> Ok(<<get_sample(self, -2), get_sample(self, -1)>>)
          [] 2 < n /\ n < 4 -> Ok(<<get_sample(self, -3), get_sample(self, -2), get_sample(self, -1)>>)
          [] 3 < n /\ n < 5 -> Ok(<<get_sample(self, -4), get_sample(self, -3), get_sample(self, -2),
                                    get_sample(self, -1)>>)
          [] n >= 5         -> Ok(<<get_sample(self, -5), get_sample(self, -4), get_sample(self, -3),
                                    get_sample(self, -2), get_sample(self, -1)>>)
          [] OTHER          -> Raise("UnboundLocalError")

\* where a slice bound lands in a sequence of n items (Python slice semantics)
SliceBound(n, i) ==
    LET j == IF i < 0 THEN i + n ELSE i
    IN  IF j < 0 THEN 0 ELSE IF j > n THEN n ELSE j

\* Data.limit_samples: the rows self.data[start_row:end_row, :] leaves, or the
\* IndexError of indexing a one-dimensional array with two indices
limit_samples(self, start_row, end_row) ==
    IF self.ndim = 1 THEN Raise("IndexError")
    ELSE Ok(SubSeq(self.data,
                   SliceBound(Len(self.data), start_row) + 1,
                   SliceBound(Len(self.data), end_row)))

\* the list `headers` after the isinstance(headers, str) test (data.py:360-361)
HeaderList(h) == IF h.isstr THEN <<h.name>> ELSE h.names

\* select_data with every negative row index refused
select_data_no_negative(self, h, rows) ==
    LET headinds == get_header_indices(self, HeaderList(h))
        n == Len(self.data)
    IN  IF self.ndim = 1 THEN Raise("IndexError")
        ELSE IF Len(rows) = 0
        THEN Ok([r \in 1..n |-> Pick(self.data[r], headinds)])
        ELSE IF headinds = <<>> THEN Ok([r \in 1..Len(rows) |-> <<>>])
        ELSE IF \E r \in 1..Len(rows) : rows[r] >= n \/ rows[r] < 0
        THEN Raise("IndexError")
        ELSE Ok([r \in 1..Len(rows) |-> Pick(self.data[rows[r] + 1], headinds)])

\* Data.select_data
select_data(self, h, rows) ==
    LET headinds == get_header_indices(self, HeaderList(h))
        n == Len(self.data)
    IN  IF self.ndim = 1 THEN Raise("IndexError")
        ELSE IF Len(rows) = 0
        THEN Ok([r \in 1..n |-> Pick(self.data[r], headinds)])
        \* index arrays that broadcast to an empty shape are not bounds-checked
        ELSE IF headinds = <<>> THEN Ok([r \in 1..Len(rows) |-> <<>>])
        ELSE IF \E r \in 1..Len(rows) : rows[r] >= n \/ rows[r] < -n
        THEN Raise("IndexError")
        ELSE Ok([r \in 1..Len(rows) |->
                   Pick(self.data[(IF rows[r] < 0 THEN rows[r] + n ELSE rows[r]) + 1], headinds)])

-----------------------------------------------------------------------------
(* class Analysis (analysis.py). `d` is the Data object self.data refers to. *)

\* column c (one-based) of a matrix, as fractions
Column(m, c) == [r \in 1..Len(m) |-> <<m[r][c], 1>>]

\* shape[1] of the array select_data returns
Width(d, h) == Len(get_header_indices(d, HeaderList(h)))

\* np.min / np.max over axis 0: a reduction without identity over no rows raises
np_min(m, w) ==
    IF Len(m) = 0 THEN Raise("ValueError")
    ELSE Ok([c \in 1..w |-> SeqMin([r \in 1..Len(m) |-> m[r][c]])])

np_max(m, w) ==
    IF Len(m) = 0 THEN Raise("ValueError")
    ELSE Ok([c \in 1..w |-> SeqMax([r \in 1..Len(m) |-> m[r][c]])])

\* Analysis.min
min(d, h, rows) ==
    LET min_data == select_data(d, h, rows)
    IN  IF ~min_data.ok THEN min_data ELSE np_min(min_data.val, Width(d, h))

\* Analysis.max
max(d, h, rows) ==
    LET max_data == select_data(d, h, rows)
    IN  IF ~max_data.ok THEN max_data ELSE np_max(max_data.val, Width(d, h))

\* a mean that divides by the number of columns
mean_divisor_columns(mean_data, w) == w

\* the divisor of Analysis.mean: len(mean_data)
mean_divisor(mean_data, w) == Len(mean_data)

\* Analysis.mean
mean(d, h, rows) ==
    LET mean_data == select_data(d, h, rows)
    IN  IF ~mean_data.ok THEN mean_data
        ELSE LET w == Width(d, h)
                 num_rows == mean_divisor(mean_data.val, w)
                 sum_data == [c \in 1..w |-> FSum(Column(mean_data.val, c))]
             IN  Ok([c \in 1..w |-> np_divide(sum_data[c], num_rows)])

\* a variance that divides by the number of rows (population variance)
var_divisor_population(num_rows) == num_rows

\* the divisor of Analysis.var: num_rows - 1
var_divisor(num_rows) == num_rows - 1

\* Analysis.var
var(d, h, rows) ==
    LET vars_data == select_data(d, h, rows)
    IN  IF ~vars_data.ok THEN vars_data
        ELSE LET w == Width(d, h)
                 num_rows == Len(vars_data.val)
                 means == mean(d, h, rows).val
                 subtract_mean_squared ==
                     [r \in 1..num_rows |-> [c \in 1..w |->
                        LET dev == FSub(<<vars_data.val[r][c], 1>>, means[c])
                        IN  FMul(dev, dev)]]
                 sum_data == [c \in 1..w |->
                                FSum([r \in 1..num_rows |-> subtract_mean_squared[r][c]])]
             IN  Ok([c \in 1..w |-> np_divide(sum_data[c], var_divisor(num_rows))])

\* Analysis.std: the square root of each variance, kept symbolic ([sqrt |-> v])
std(d, h, rows) ==
    LET variances == var(d, h, rows)
    IN  IF ~variances.ok THEN variances
        ELSE Ok([c \in 1..Len(variances.val) |-> [sqrt |-> variances.val[c]]])

-----------------------------------------------------------------------------
(* The state machine. *)

NoHeaders == [isstr |-> FALSE, names |-> <<>>]

Called(op, h, rows, a, b) == [op |-> op, h |-> h, rows |-> rows, start_row |-> a, end_row |-> b]

\* the Data object as it is now
Self == [headers |-> headers, header2col |-> header2col, data |-> data, ndim |-> ndim]

\* an Analysis that kept a copy of the Data object made when it was constructed
AnalysisData_copy ==
    [headers |-> headers, header2col |-> header2col, data |-> loaded,
     ndim |-> IF loaded = <<>> THEN 1 ELSE 2]

\* the Data object Analysis.data refers to: the object itself, not a copy
AnalysisData == Self

\* Data(filepath), then Analysis(data) (visualization.py:19-20)
Data_init ==
    /\ st = "new"
    /\ call.op = "none"
    /\ LET r == read(file)
       IN  /\ call' = Called("Data", NoHeaders, <<>>, 0, 0)
           /\ stdout' = stdout \o read_prints(file)
           /\ IF r.ok
              THEN /\ st' = "ok"
                   /\ headers' = r.val.headers
                   /\ header2col' = r.val.header2col
                   /\ data' = r.val.data
                   /\ ndim' = r.val.ndim
                   /\ loaded' = r.val.data
                   /\ ret' = Ok("None")
              ELSE /\ st' = "failed"
                   /\ ret' = r
                   /\ UNCHANGED <<headers, header2col, data, ndim, loaded>>
    /\ UNCHANGED <<file, cuts, first>>

\* a call that only reads the Data object
Reads(c, r) ==
    /\ st = "ok"
    /\ call.op = "none"
    /\ call' = c
    /\ ret' = r
    /\ UNCHANGED <<file, st, headers, header2col, data, ndim, loaded, cuts, first, stdout>>

Call_head == Reads(Called("head", NoHeaders, <<>>, 0, 0), head(Self))

Call_tail == Reads(Called("tail", NoHeaders, <<>>, 0, 0), tail(Self))

Call_select_data(h, rows) == Reads(Called("select_data", h, rows, 0, 0), select_data(Self, h, rows))

Call_min(h, rows) == Reads(Called("min", h, rows, 0, 0), min(AnalysisData, h, rows))

Call_max(h, rows) == Reads(Called("max", h, rows, 0, 0), max(AnalysisData, h, rows))

Call_mean(h, rows) == Reads(Called("mean", h, rows, 0, 0), mean(AnalysisData, h, rows))

Call_var(h, rows) == Reads(Called("var", h, rows, 0, 0), var(AnalysisData, h, rows))

Call_std(h, rows) == Reads(Called("std", h, rows, 0, 0), std(AnalysisData, h, rows))

Call_limit_samples(start_row, end_row) ==
    /\ st = "ok"
    /\ call.op = "none"
    /\ cuts < MaxLimits
    /\ LET r == limit_samples(Self, start_row, end_row)
       IN  /\ call' = Called("limit_samples", NoHeaders, <<>>, start_row, end_row)
           /\ IF r.ok
              THEN /\ data' = r.val
                   /\ cuts' = cuts + 1
                   /\ first' = IF cuts = 0 THEN <<start_row, end_row>> ELSE first
                   /\ ret' = Ok("None")
              ELSE /\ ret' = r
                   /\ UNCHANGED <<data, cuts, first>>
    /\ UNCHANGED <<file, st, headers, header2col, ndim, loaded, stdout>>

\* the script takes the outcome and goes on to its next statement
Return ==
    /\ call.op # "none"
    /\ call' = Called("none", NoHeaders, <<>>, 0, 0)
    /\ ret' = Ok("None")
    /\ UNCHANGED <<file, st, headers, header2col, data, ndim, loaded, cuts, first, stdout>>

(* Arguments. *)

ReqNames == {"a", "c", "z"}

HeaderArgs ==
    {[isstr |-> FALSE, names |-> s] : s \in SeqsUpTo(ReqNames, MaxHeaders)}
    \cup {[isstr |-> TRUE, name |-> x] : x \in ReqNames}

\* lists of row indices around the valid ones of a table of n samples
RowArgs(n) == SeqsUpTo((-(n + 1))..n, MaxRowArgs)

\* the same, of at most one index
RowArg(n) == SeqsUpTo((-(n + 1))..n, 1)

InitWith(files) ==
    /\ file \in files
    /\ st = "new"
    /\ headers = <<>>
    /\ header2col = <<>>
    /\ data = <<>>
    /\ ndim = 0
    /\ loaded = <<>>
    /\ cuts = 0
    /\ first = <<0, 0>>
    /\ stdout = <<>>
    /\ call = Called("none", NoHeaders, <<>>, 0, 0)
    /\ ret = Ok("None")

(* The statistics specification: a few well-formed files, every operation,  *)
(* limit_samples at most once.                                              *)

StatFiles ==
    {MakeFile(<<"a", "c">>, <<"numeric", "numeric">>, <<"num", "num">>, n, p)
        : n \in 0..MaxSamples, p \in {"asc", "mix"}}
    \cup {MakeFile(<<"a", "b", "c">>, <<"numeric", "string", "numeric">>, <<"num", "txt", "num">>, n, "asc")
        : n \in 0..MaxSamples}

Init == InitWith(StatFiles)

\* the object exists and the script is between two statements
Idle == st = "ok" /\ call.op = "none"

Next ==
    \/ Data_init
    \/ Call_head
    \/ Call_tail
    \/ Idle /\ \E h \in HeaderArgs, rows \in RowArgs(Len(data)) : Call_select_data(h, rows)
    \/ Idle /\ \E h \in HeaderArgs, rows \in RowArg(Len(data)) : Call_min(h, rows)
    \/ Idle /\ \E h \in HeaderArgs, rows \in RowArg(Len(data)) : Call_max(h, rows)
    \/ Idle /\ \E h \in HeaderArgs, rows \in RowArgs(Len(data)) : Call_mean(h, rows)
    \/ Idle /\ \E h \in HeaderArgs, rows \in RowArgs(Len(data)) : Call_var(h, rows)
    \/ Idle /\ \E h \in HeaderArgs, rows \in RowArg(Len(data)) : Call_std(h, rows)
    \/ Idle /\ cuts = 0 /\ \E a \in 0..1, b \in 0..1 : Call_limit_samples(a, a + b)
    \/ Return

Spec == Init /\ [][Next]_vars

(* The reading specification: every small document, then a look at the table. *)

\* the documents of nc columns
ReadFiles(nc) ==
    {MakeFile(hdr, types, kinds, n, p)
        : hdr \in [1..nc -> HeaderTexts], types \in [1..nc -> TypeTexts],
          kinds \in [1..nc -> {"num", "txt"}], n \in 0..MaxRows, p \in {"asc", "mix"}}

InitRead == \E nc \in 1..MaxCols : InitWith(ReadFiles(nc))

NextRead ==
    \/ Data_init
    \/ Call_head
    \/ Call_tail
    \/ Idle /\ \E x \in ReqNames : Call_select_data([isstr |-> FALSE, names |-> <<x>>], <<>>)
    \/ Return

SpecRead == InitRead /\ [][NextRead]_vars

(* The row-range specification: taller tables, successive limit_samples calls. *)

TallFiles ==
    {MakeFile(<<"a", "c">>, <<"numeric", "numeric">>, <<"num", "num">>, n, "mix") : n \in 0..MaxTall}

TallHeaderArgs == {[isstr |-> FALSE, names |-> <<"c", "a">>]}

InitRows == InitWith(TallFiles)

NextRows ==
    \/ Data_init
    \/ Call_head
    \/ Call_tail
    \/ Idle /\ \E a \in 0..MaxStart, b \in (-1)..MaxArg : Call_limit_samples(a, b)
    \/ Idle /\ \E h \in TallHeaderArgs : Call_min(h, <<>>)
    \/ Idle /\ \E h \in TallHeaderArgs : Call_max(h, <<>>)
    \/ Idle /\ \E h \in TallHeaderArgs : Call_mean(h, <<>>)
    \/ Idle /\ \E h \in TallHeaderArgs : Call_var(h, <<>>)
    \/ Idle /\ \E h \in TallHeaderArgs : Call_std(h, <<>>)
    \/ Return

SpecRows == InitRows /\ [][NextRows]_vars

-----------------------------------------------------------------------------
(* The claims.  In a state where call.op names a reading call, `data`,       *)
(* `headers` and `header2col` are the table the call ran on and `ret` is its *)
(* outcome.                                                                  *)

\* the header names of the call, as a list
ReqList == HeaderList(call.h)

AllKnown == \A i \in 1..Len(ReqList) : ReqList[i] \in DOMAIN header2col

SomeKnown == \E i \in 1..Len(ReqList) : ReqList[i] \in DOMAIN header2col

\* every requested row index is one of 0 .. n-1
ValidRows == \A r \in 1..Len(call.rows) : 0 <= call.rows[r] /\ call.rows[r] < Len(data)

\* the zero-based rows a call selects: all of them when `rows` is empty
Selected == IF call.rows = <<>> THEN [r \in 1..Len(data) |-> r - 1] ELSE call.rows

\* the stored value in zero-based row r of the column named x
Cell(r, x) == data[r + 1][header2col[x] + 1]

\* C1: once a Data object is constructed, and after any call, headers and
\* header2col agree: as many entries as headers, and header2col[headers[i]] = i.
C1_HeadersAgreeWithMapping ==
    st = "ok" =>
        /\ Cardinality(DOMAIN header2col) = Len(headers)
        /\ \A i \in 1..Len(headers) :
              headers[i] \in DOMAIN header2col /\ header2col[headers[i]] = i - 1

\* the positions (one-based, ascending) whose type marker is "numeric"
NumericPositions == [k \in 1..Len(PositionsOf(file.types, "numeric", 1)) |->
                        PositionsOf(file.types, "numeric", 1)[k] + 1]

\* C2: read retains exactly the columns marked "numeric": headers are the
\* first-row names at those positions, in order, and every data row gives one
\* matrix row spelling the fields at those positions, in order.
C2_ReadRetainsNumericColumns ==
    st = "ok" =>
        /\ headers = [k \in 1..Len(NumericPositions) |-> StripHeader(file.hdr[NumericPositions[k]])]
        /\ Len(loaded) = Len(file.rows)
        /\ \A r \in 1..Len(loaded) :
              /\ Len(loaded[r]) = Len(NumericPositions)
              /\ \A k \in 1..Len(NumericPositions) :
                    ToString(loaded[r][k]) = file.rows[r][NumericPositions[k]]

\* what C3 says select_data returns: element (r, c) is the stored value in
\* row rows[r] of the column of headers[c]; all rows when `rows` is empty
SelectedExactly ==
    /\ ret.ok
    /\ Len(ret.val) = Len(Selected)
    /\ \A r \in 1..Len(Selected) :
          /\ Len(ret.val[r]) = Len(ReqList)
          /\ \A c \in 1..Len(ReqList) : ret.val[r][c] = Cell(Selected[r], ReqList[c])

\* C2 when the first type marker is a recognised one
ReadRetainsNumericAfterRecognisedFirstMarker ==
    file.types[1] \in data_type_list => C2_ReadRetainsNumericColumns

\* C3: select_data with known headers and rows that are empty or valid returns
\* the matrix of the stored values at rows x headers, in request order.
C3_SelectDataReturnsCrossProduct ==
    (call.op = "select_data" /\ AllKnown /\ ValidRows) => SelectedExactly

\* C3 on a Data object whose array is two-dimensional
SelectDataOnMatrix ==
    (call.op = "select_data" /\ AllKnown /\ ValidRows /\ ndim = 2) => SelectedExactly

\* C4 as stated, for a request that names a known header: a rows list with a
\* negative index or an index >= the number of stored samples makes
\* select_data raise IndexError.
C4_NegativeOrLargeIndexRaises ==
    (/\ call.op = "select_data"
     /\ SomeKnown
     /\ \E r \in 1..Len(call.rows) : call.rows[r] < 0 \/ call.rows[r] >= Len(data))
    => ret = Raise("IndexError")

\* C4 amended: with at least one known header requested, a rows list holding an
\* index >= n or < -n makes select_data raise IndexError; otherwise it returns,
\* a negative index i in -n .. -1 selecting row n + i.
C4_IndexOutsideBothEndsRaises ==
    (call.op = "select_data" /\ call.rows # <<>> /\ SomeKnown) =>
        LET n == Len(data)
        IN  IF \E r \in 1..Len(call.rows) : call.rows[r] >= n \/ call.rows[r] < -n
            THEN ret = Raise("IndexError")
            ELSE /\ ret.ok
                 /\ Len(ret.val) = Len(call.rows)
                 /\ AllKnown =>
                      \A r \in 1..Len(call.rows) : \A c \in 1..Len(ReqList) :
                         ret.val[r][c] =
                            Cell(IF call.rows[r] < 0 THEN call.rows[r] + n ELSE call.rows[r],
                                 ReqList[c])

\* C4 witness: the index -1 selected the last of several rows
C4_NegativeIndexSelected ==
    /\ call.op = "select_data"
    /\ call.rows = <<-1>>
    /\ ReqList = <<"c">>
    /\ Len(data) >= 2
    /\ ret.ok
    /\ ret.val = <<<<Cell(Len(data) - 1, "c")>>>>

\* the sum of the selected values of the column named x
RECURSIVE SumOver(_, _)
SumOver(sel, x) == IF sel = <<>> THEN 0 ELSE Cell(sel[1], x) + SumOver(Tail(sel), x)

\* the sum over the selection of (k * value - total)^2 for the column named x
RECURSIVE SquaresOver(_, _, _, _)
SquaresOver(sel, x, k, total) ==
    IF sel = <<>> THEN 0
    ELSE (k * Cell(sel[1], x) - total) * (k * Cell(sel[1], x) - total)
         + SquaresOver(Tail(sel), x, k, total)

\* the fraction q is the quotient num / den (den > 0)
IsQuotient(q, num, den) == q[2] > 0 /\ q[1] * den = q[2] * num

\* C5: for known headers and a non-empty list of valid rows, or no list on a
\* table with samples, mean returns per requested header the sum of the
\* column's selected values divided by the number of selected rows.
C5_MeanDividesByRowCount ==
    (call.op = "mean" /\ AllKnown /\ ValidRows /\ Len(Selected) >= 1) =>
        /\ ret.ok
        /\ Len(ret.val) = Len(ReqList)
        /\ \A c \in 1..Len(ReqList) :
              IsQuotient(ret.val[c], SumOver(Selected, ReqList[c]), Len(Selected))

\* C5 witness: a mean of one column over two listed rows
C5_MeanOfTwoRows ==
    /\ call.op = "mean"
    /\ Len(ReqList) = 1 /\ AllKnown
    /\ Len(call.rows) = 2 /\ ValidRows /\ call.rows[1] # call.rows[2]
    /\ ret.ok /\ ret.val[1][2] = 2

\* C6: over more than one selected row, var returns per requested header the
\* sum of squared deviations from the column's mean over the same selection,
\* divided by (number of selected rows - 1).
C6_VarDividesByRowCountMinusOne ==
    (call.op = "var" /\ AllKnown /\ ValidRows /\ Len(Selected) > 1) =>
        LET k == Len(Selected)
        IN  /\ ret.ok
            /\ Len(ret.val) = Len(ReqList)
            /\ \A c \in 1..Len(ReqList) :
                  IsQuotient(ret.val[c],
                             SquaresOver(Selected, ReqList[c], k, SumOver(Selected, ReqList[c])),
                             k * k * (k - 1))

\* C6 witness: a positive variance of one column over all of three rows
C6_VarOfThreeRows ==
    /\ call.op = "var"
    /\ ReqList = <<"c">> /\ AllKnown
    /\ call.rows = <<>> /\ Len(data) = 3
    /\ ret.ok /\ ret.val[1][1] > 0

\* C7: an aggregate with a zero divisor raises a division-by-zero error: mean
\* over zero selected rows, var and std over exactly one selected row (for a
\* request that names a known header, on rows select_data accepts).
C7_ZeroDivisorRaises ==
    (/\ call.op \in {"mean", "var", "std"}
     /\ SomeKnown /\ ValidRows /\ ndim = 2
     /\ Len(Selected) = (IF call.op = "mean" THEN 0 ELSE 1))
    => ret = Raise("ZeroDivisionError")

Min2(x, y) == IF x <= y THEN x ELSE y

\* what C8 says of a limit_samples step with start_row, end_row >= 0: the
\* call returns, the table becomes the rows start_row .. end_row-1 it had
\* just before (those that exist, none when start_row >= end_row), and after
\* two such calls (a, b), (c, d) it holds the loaded rows a+c .. min(a+d, b)-1
LimitStepKeepsRange ==
    LET a == call'.start_row
        b == call'.end_row
    IN  (call'.op = "limit_samples" /\ a >= 0 /\ b >= 0) =>
            /\ ret'.ok
            /\ headers' = headers /\ header2col' = header2col
            /\ data' = (IF a >= b THEN <<>> ELSE SubSeq(data, a + 1, Min2(b, Len(data))))
            /\ (cuts' = 2 /\ first[1] >= 0 /\ first[2] >= 0) =>
                  data' = SubSeq(loaded, first[1] + a + 1,
                                 Min2(Min2(first[1] + b, first[2]), Len(loaded)))

\* C8: limit_samples(start, end) replaces the matrix by the rows start..end-1
\* of the matrix as it was, start >= end leaves zero samples without raising,
\* and two calls (a, b) then (c, d) leave the loaded rows a+c .. min(a+d, b)-1.
C8_LimitSamplesKeepsRange == [][LimitStepKeepsRange]_vars

\* C8 on a Data object whose array is two-dimensional
LimitSamplesOnMatrix == [][ndim = 2 => LimitStepKeepsRange]_vars

AggregateOps == {"min", "max", "mean", "var", "std"}

\* the zero-based rows stored now
StoredRows == [r \in 1..Len(data) |-> r - 1]

\* the fraction q is the variance (divisor n - 1) of the stored column named x
IsStoredVariance(q, x) ==
    LET n == Len(data)
    IN  IF n = 0 THEN q = <<0, 1>>
        ELSE IF n = 1 THEN IsNaN(q)
        ELSE IsQuotient(q, SquaresOver(StoredRows, x, n, SumOver(StoredRows, x)), n * n * (n - 1))

\* the value an aggregate returned for the column named x is the aggregate of
\* the rows stored now
OverStoredRows(v, x) ==
    LET n == Len(data)
    IN  CASE call.op = "min"  -> /\ \E r \in 1..n : v = Cell(r - 1, x)
                                 /\ \A r \in 1..n : v <= Cell(r - 1, x)
          [] call.op = "max"  -> /\ \E r \in 1..n : v = Cell(r - 1, x)
                                 /\ \A r \in 1..n : v >= Cell(r - 1, x)
          [] call.op = "mean" -> IF n = 0 THEN IsNaN(v)
                                 ELSE IsQuotient(v, SumOver(StoredRows, x), n)
          [] call.op = "var"  -> IsStoredVariance(v, x)
          [] call.op = "std"  -> IsStoredVariance(v.sqrt, x)

AggregateSeesStoredRows ==
    (call.op \in AggregateOps /\ call.rows = <<>> /\ AllKnown) =>
        /\ (ndim = 2 /\ Len(data) >= 1) => ret.ok
        /\ ret.ok =>
              /\ Len(ret.val) = Len(ReqList)
              /\ \A c \in 1..Len(ReqList) : OverStoredRows(ret.val[c], ReqList[c])

AggregateLeavesDataAlone ==
    call'.op \in AggregateOps =>
        UNCHANGED <<data, ndim, headers, header2col>>

\* C9: Analysis shares the Data object: after any limit_samples calls, min,
\* max, mean, var and std with rows unspecified are computed over exactly the
\* rows stored now, and no aggregate call changes the matrix, the headers or
\* the mapping.
C9_AnalysisSharesData == []AggregateSeesStoredRows /\ [][AggregateLeavesDataAlone]_vars

\* C9 witness: a mean returned after limit_samples discarded the first row
C9_MeanAfterLimit ==
    /\ call.op = "mean" /\ call.rows = <<>> /\ ret.ok
    /\ cuts >= 1
    /\ Len(data) >= 1 /\ Len(data) < Len(loaded)
    /\ data[1] # loaded[1]

\* C10: for any number n of stored samples, n = 0 included, head() returns the
\* first min(5, n) rows and tail() the last min(5, n) rows, with all columns
\* and in stored order (so the same rows when n = 5).
C10_HeadTailReturnUpToFive ==
    LET n == Len(data)
        k == Min2(5, n)
    IN  /\ call.op = "head" => (ret.ok /\ ret.val = SubSeq(data, 1, k))
        /\ call.op = "tail" => (ret.ok /\ ret.val = SubSeq(data, n - k + 1, n))

\* C10 on a table that holds at least one sample
HeadTailOnSamples == Len(data) >= 1 => C10_HeadTailReturnUpToFive

\* some field of the second row is not one of the four type markers
UnrecognisedMarker == \E c \in 1..Len(file.types) : file.types[c] \notin data_type_list

\* no field of the second row is one of the four type markers
NoRecognisedMarker == \A c \in 1..Len(file.types) : file.types[c] \notin data_type_list

\* every field under a "numeric" marker spells a number
NumericFieldsParse ==
    \A r \in 1..Len(file.rows) : \A k \in 1..Len(NumericPositions) :
        float(file.rows[r][NumericPositions[k]]).ok

\* the construction printed the type-row error
TypeRowErrorReported ==
    \E i \in 1..Len(stdout) : stdout[i] = "Error: there are no data types in second row"

\* C11: when any field of the second row, at any position, is not one of
\* numeric, enum, string, date, the construction reports an error and still
\* completes without raising (the numeric fields being numbers); when no field
\* is a recognised marker, no column is retained.
C11_TypeRowErrorForAnyField ==
    (st # "new" /\ UnrecognisedMarker) =>
        /\ TypeRowErrorReported
        /\ NumericFieldsParse => st = "ok"
        /\ NoRecognisedMarker =>
              /\ st = "ok"
              /\ headers = <<>>
              /\ DOMAIN header2col = {}
              /\ \A r \in 1..Len(loaded) : loaded[r] = <<>>

\* C11 when the unrecognised field is the first one
TypeRowErrorAfterUnrecognisedFirstMarker ==
    file.types[1] \notin data_type_list => C11_TypeRowErrorForAnyField

\* the error is reported exactly when the first field is unrecognised
TypeRowErrorIffFirstMarkerUnrecognised ==
    st # "new" => (TypeRowErrorReported <=> file.types[1] \notin data_type_list)

\* the requested names the mapping knows, in request order
KnownReq == SelectSeq(ReqList, LAMBDA x : x \in DOMAIN header2col)

\* the result has the selected rows and one column per known requested name
SelectedKnownOnly ==
    /\ ret.ok
    /\ Len(ret.val) = Len(Selected)
    /\ \A r \in 1..Len(Selected) :
          /\ Len(ret.val[r]) = Len(KnownReq)
          /\ \A c \in 1..Len(KnownReq) : ret.val[r][c] = Cell(Selected[r], KnownReq[c])

\* C12: select_data given header names some of which are absent from
\* header2col raises no error and drops the unknown names: the result has one
\* column per known requested name, in request order (no column when none is
\* known), so its width is the number of known names.
C12_UnknownHeadersDropped ==
    (call.op = "select_data" /\ ~AllKnown /\ ValidRows) => SelectedKnownOnly

\* C12 on a Data object whose array is two-dimensional
UnknownHeadersDroppedOnMatrix ==
    (call.op = "select_data" /\ ~AllKnown /\ ValidRows /\ ndim = 2) => SelectedKnownOnly

\* a request mixing a known and an unknown name returned the known column alone
UnknownHeaderDroppedFromMixedRequest ==
    /\ call.op = "select_data" /\ ~AllKnown /\ SomeKnown /\ ValidRows
    /\ ret.ok /\ Len(ret.val) >= 1
    /\ Len(ret.val[1]) = Len(KnownReq) /\ Len(KnownReq) < Len(ReqList)

====
